---- MODULE Spec2Model ----
(***************************************************************************)
(* A model of collect.py: the date resolver, the URL normalizer and        *)
(* canonicalizer, the three source pipelines (parse_miit_home,             *)
(* parse_gov_home, parse_qqnews_search) and the store merger (dedup_merge).*)
(*                                                                         *)
(* Representation.  A Python str is a sequence of characters, each a       *)
(* string: an ASCII character is itself ("a", "/"), a Chinese character is *)
(* written as its pinyin ("nian", "yue", "ri").                            *)
(* A pub_date string "YYYY-MM-DD" is the triple <<y, mo, d>> of the        *)
(* numbers its three zero-padded fields show (string order on the padded   *)
(* text is the lexicographic order of the triples); None is <<>>.  A       *)
(* datetime is a number of minutes in the +08:00 zone, counted so that     *)
(* minute 1440 * n is midnight of the day whose date.toordinal() is n.     *)
(***************************************************************************)
EXTENDS Integers, Sequences, FiniteSets, TLC

VARIABLES
    \* --- URL canonicalizer (canonicalize_url_for_dedup) ---
    cin,        \* the pair of URL inputs, each as the parts it is rendered from
    ckeys,      \* the canonical keys computed so far, in input order
    \* --- date resolver (extract_date) ---
    dtext,      \* the text handed to extract_date
    dres,       \* <<>> before the call, <<result>> after it
    \* --- one run's clock and configuration (main, config.yaml) ---
    now,        \* datetime.now(tz=SG_TZ), in minutes
    config,     \* config.yaml as the run read it, and what the web answered (web)
    \* --- source pipelines ---
    pipe,       \* which pipeline ran last: "none", "miit", "gov", "qqnews"
    cands,      \* the raw candidates the extractor produced, in extraction order
    items,      \* the Items built from them (before filtering)
    filtered,   \* the Items that passed the keyword and window gates
    out,        \* the list the pipeline returned
    fetches,    \* the article-page urls fetched by parse_gov_home, in order
    \* --- store merger (load_existing, dedup_merge, to_csv) ---
    store,      \* the table the last dedup_merge returned (main writes it to the csv)
    batch,      \* new_items of the last dedup_merge
    before,     \* the table handed to the last dedup_merge as `existing`
    added,      \* the added count the last dedup_merge returned
    runs,       \* how many runs of main have merged into the store
    offered,    \* how many Items those runs handed to dedup_merge in all
    again,      \* whether the last dedup_merge was a second merge of the same batch
    \* --- one run of main, statement by statement ---
    pc,         \* the statement main is at: "idle" outside such a run, a source's
                \* name, "merge", "to_csv", "added_count", "done", or "raised"
                \* once an exception has left main
    failed,     \* the source whose page fetch raised, "none" if none did
    all_items,  \* main's all_items
    out_csv,    \* the csv file: <<>> while it does not exist, else <<its rows>>
    added_count \* added_count.txt: <<>> while it does not exist, else <<its number>>

vars == <<cin, ckeys, dtext, dres, now, config, pipe, cands, items, filtered,
          out, fetches, store, batch, before, added, runs, offered, again,
          pc, failed, all_items, out_csv, added_count>>

canonVars == <<cin, ckeys>>
dateVars  == <<dtext, dres>>
pipeVars  == <<pipe, cands, items, filtered, out, fetches>>
mergeVars == <<store, batch, before, added, runs, offered, again>>
mainVars  == <<pc, failed, all_items, out_csv, added_count>>

(***************************************************************************)
(* Python str helpers                                                      *)
(***************************************************************************)
\* The element of a one-element set.  The({e : v \in {x}}) is LET v == x IN e
\* with x evaluated once, however often e uses v.
The(S) == CHOOSE x \in S : TRUE

UpperLetters == <<"A","B","C","D","E","F","G","H","I","J","K","L","M",
                  "N","O","P","Q","R","S","T","U","V","W","X","Y","Z">>
LowerLetters == <<"a","b","c","d","e","f","g","h","i","j","k","l","m",
                  "n","o","p","q","r","s","t","u","v","w","x","y","z">>
Digits == <<"0","1","2","3","4","5","6","7","8","9">>

\* str.lower() on one character
UpperSet == {UpperLetters[i] : i \in DOMAIN UpperLetters}
LowerOf == [c \in UpperSet |-> LowerLetters[CHOOSE i \in DOMAIN UpperLetters : UpperLetters[i] = c]]
LowerChar(c) == IF c \in UpperSet THEN LowerOf[c] ELSE c

\* str.lower()
Lower(str) == The({ [i \in 1..Len(s) |-> LowerChar(s[i])] : s \in {str} })

\* s.startswith(p)
StartsWith(str, p) ==
    The({ Len(s) >= Len(p) /\ SubSeq(s, 1, Len(p)) = p : s \in {str} })

\* s.endswith(p)
EndsWith(str, p) ==
    The({ Len(s) >= Len(p) /\ SubSeq(s, Len(s) - Len(p) + 1, Len(s)) = p : s \in {str} })

\* s[n:]
From(str, n) == The({ SubSeq(s, n + 1, Len(s)) : s \in {str} })

\* p in s  (substring test)
Contains(str, sub) ==
    The({ \E i \in 0..(Len(s) - Len(p)) : SubSeq(s, i + 1, i + Len(p)) = p
          : s \in {str}, p \in {sub} })

\* the least member of a non-empty set of numbers
Least(S) == CHOOSE i \in S : \A j \in S : i <= j

\* how many characters c there are at the start, and at the end, of s
LeadRun(s, c) ==
    CHOOSE k \in 0..Len(s) : (k = Len(s) \/ s[k + 1] # c) /\ \A j \in 1..k : s[j] = c
TrailRun(s, c) ==
    CHOOSE k \in 0..Len(s) :
        (k = Len(s) \/ s[Len(s) - k] # c) /\ \A j \in 1..k : s[Len(s) - j + 1] = c

\* s.strip(): leading and trailing blanks removed
Strip(str) ==
    The({ IF lead = Len(s) THEN <<>> ELSE SubSeq(s, lead + 1, Len(s) - TrailRun(s, " "))
          : s \in {str}, lead \in {LeadRun(str, " ")} })

\* s.rstrip("/")
RStripSlash(str) == The({ SubSeq(s, 1, Len(s) - TrailRun(s, "/")) : s \in {str} })

\* the least index (1-based) of a character of s that lies in cs, or Len(s)+1
FirstOf(str, cs) ==
    The({ IF \A i \in DOMAIN s : s[i] \notin cs THEN Len(s) + 1
          ELSE CHOOSE k \in DOMAIN s : s[k] \in cs /\ \A j \in 1..(k - 1) : s[j] \notin cs
          : s \in {str} })

(***************************************************************************)
(* normalize_url                                                           *)
(***************************************************************************)
HttpPrefix  == <<"h","t","t","p",":","/","/">>
HttpsPrefix == <<"h","t","t","p","s",":","/","/">>
HttpsColon  == <<"h","t","t","p","s",":">>

normalize_url(base, hrefArg) ==
    The({ IF StartsWith(href, HttpPrefix) \/ StartsWith(href, HttpsPrefix) THEN href
          ELSE IF StartsWith(href, <<"/","/">>) THEN HttpsColon \o href
          ELSE IF StartsWith(href, <<"/">>) THEN RStripSlash(base) \o href
          ELSE RStripSlash(base) \o <<"/">> \o href
          : href \in {Strip(hrefArg)} })

(***************************************************************************)
(* urllib.parse.urlsplit / urlunsplit, as canonicalize_url_for_dedup uses  *)
(* them                                                                    *)
(***************************************************************************)
SchemeChars ==
    {UpperLetters[i] : i \in DOMAIN UpperLetters} \cup
    {LowerLetters[i] : i \in DOMAIN LowerLetters} \cup
    {Digits[i] : i \in DOMAIN Digits} \cup {"+", "-", "."}
Letters ==
    {UpperLetters[i] : i \in DOMAIN UpperLetters} \cup
    {LowerLetters[i] : i \in DOMAIN LowerLetters}

\* the scheme split off: <<scheme, rest>>
SplitScheme(url) ==
    The({ IF /\ colon <= Len(u)
             /\ colon > 1
             /\ u[1] \in Letters
             /\ \A i \in 1..(colon - 1) : u[i] \in SchemeChars
          THEN <<Lower(SubSeq(u, 1, colon - 1)), From(u, colon)>>
          ELSE <<<<>>, u>>
          : u \in {url}, colon \in {FirstOf(url, {":"})} })

\* _splitnetloc(url, 2) when url starts with "//": <<netloc, rest>>
SplitNetloc(rest) ==
    The({ IF StartsWith(r, <<"/","/">>)
          THEN The({ <<SubSeq(r, 3, delim - 1), From(r, delim - 1)>>
                     : delim \in {2 + FirstOf(From(r, 2), {"/", "?", "#"})} })
          ELSE <<<<>>, r>>
          : r \in {rest} })

\* s.split(c, 1) when c is in s: <<before, after>>; else <<s, "">>
SplitAt(str, c) ==
    The({ <<SubSeq(s, 1, at - 1), From(s, at)>> : s \in {str}, at \in {FirstOf(str, {c})} })

\* urlsplit(u): a record; raises = TRUE stands for ValueError("Invalid IPv6 URL")
urlsplit(u) ==
    The({ The({ The({ The({
        [raises |-> (\E i \in DOMAIN net[1] : net[1][i] = "[")
                    # (\E i \in DOMAIN net[1] : net[1][i] = "]"),
         scheme |-> sch[1], netloc |-> net[1], path |-> qry[1], query |-> qry[2],
         fragment |-> frg[2]]
        : qry \in {SplitAt(frg[1], "?")} })
        : frg \in {SplitAt(net[2], "#")} })
        : net \in {SplitNetloc(sch[2])} })
        : sch \in {SplitScheme(u)} })

\* urlunsplit(("", netloc, path, query, "")): the scheme and fragment are empty
urlunsplit(netloc, path, query) ==
    The({ IF query # <<>> THEN p1 \o <<"?">> \o query ELSE p1
          : p1 \in {IF netloc # <<>>
                    THEN <<"/","/">> \o netloc \o
                         (IF path # <<>> /\ path[1] # "/" THEN <<"/">> \o path ELSE path)
                    ELSE path} })

WwwDot == <<"w","w","w",".">>

\* netloc with a leading "www." removed
StripWww_Kept(netloc) == netloc
StripWww(netloc) == IF StartsWith(netloc, WwwDot) THEN From(netloc, 4) ELSE netloc

\* path with one trailing slash removed, unless it is "/"
StripSlash(path) ==
    IF path # <<"/">> /\ EndsWith(path, <<"/">>) THEN SubSeq(path, 1, Len(path) - 1) ELSE path

canonicalize_url_for_dedup(url) ==
    The({ The({ The({
        IF parts.raises THEN url
        ELSE urlunsplit(StripWww(Lower(parts.netloc)),
                        StripSlash(IF parts.path = <<>> THEN <<"/">> ELSE parts.path),
                        parts.query)
        : parts \in {urlsplit(u)} })
        : u \in {IF StartsWith(u0, <<"/","/">>) THEN HttpsColon \o u0 ELSE u0} })
        : u0 \in {Strip(url)} })

(***************************************************************************)
(* Calendar: datetime.date, timedelta, dateutil's parse of "YYYY-MM-DD"    *)
(***************************************************************************)
None == <<>>

IsLeap(y) == (y % 4 = 0 /\ y % 100 # 0) \/ y % 400 = 0

DaysInMonth(y, m) ==
    IF m = 2 THEN (IF IsLeap(y) THEN 29 ELSE 28)
    ELSE IF m \in {4, 6, 9, 11} THEN 30 ELSE 31

\* whether <<y, mo, d>> names a day of the calendar (datetime accepts it)
ValidDate(t) ==
    /\ Len(t) = 3
    /\ t[1] >= 1 /\ t[1] <= 9999
    /\ t[2] >= 1 /\ t[2] <= 12
    /\ t[3] >= 1 /\ t[3] <= DaysInMonth(t[1], t[2])

DaysBeforeYear(y) == (y - 1) * 365 + (y - 1) \div 4 - (y - 1) \div 100 + (y - 1) \div 400

RECURSIVE DaysBeforeMonth(_, _)
DaysBeforeMonth(y, m) ==
    IF m = 1 THEN 0 ELSE DaysBeforeMonth(y, m - 1) + DaysInMonth(y, m - 1)

\* date.toordinal()
ToOrdinal(t) == DaysBeforeYear(t[1]) + DaysBeforeMonth(t[1], t[2]) + t[3]

\* date.fromordinal(n), for n >= 1
FromOrdinal(n) ==
    LET y == CHOOSE yy \in (n \div 366)..(n \div 365 + 1) :
                 DaysBeforeYear(yy) < n /\ n <= DaysBeforeYear(yy + 1)
        r == n - DaysBeforeYear(y)
        m == CHOOSE mm \in 1..12 :
                 DaysBeforeMonth(y, mm) < r /\ r <= DaysBeforeMonth(y, mm) + DaysInMonth(y, mm)
    IN  <<y, m, r - DaysBeforeMonth(y, m)>>

\* a datetime is a number of minutes: dt.date().toordinal(), the datetime of a
\* date and a time of day, and timedelta(days), timedelta(hours)
DateOf(dt) == dt \div (24 * 60)
At(t, h, mi) == ToOrdinal(t) * (24 * 60) + h * 60 + mi
Days(n) == n * (24 * 60)
Hours(n) == n * 60

(***************************************************************************)
(* DATE_PATTERNS and extract_date                                          *)
(***************************************************************************)
IsDigit(c) == \E i \in DOMAIN Digits : Digits[i] = c
DigitVal(c) == (CHOOSE i \in DOMAIN Digits : Digits[i] = c) - 1

\* int(ds) for a string of digits
RECURSIVE ToIntFrom(_, _, _)
ToIntFrom(ds, i, acc) ==
    IF i > Len(ds) THEN acc ELSE ToIntFrom(ds, i + 1, acc * 10 + DigitVal(ds[i]))
ToInt(digits) == The({ ToIntFrom(ds, 1, 0) : ds \in {digits} })

\* the position after the blanks that start at i, when the pattern allows \s* there
SkipBlanks(s, i, ws) ==
    IF ~ws THEN i
    ELSE Least({j \in i..(Len(s) + 1) : j > Len(s) \/ s[j] # " "})

\* how many digits, at most 2, start at i
DigitRun(s, i) ==
    IF i <= Len(s) /\ IsDigit(s[i])
    THEN (IF i + 1 <= Len(s) /\ IsDigit(s[i + 1]) THEN 2 ELSE 1)
    ELSE 0

\* The three patterns: the separators after the year and after the month, the
\* character that must close the match (none for the first and third), and
\* whether \s* is allowed around the separators.
DATE_PATTERNS == <<
    [sep1 |-> {"-", "/"}, sep2 |-> {"-", "/"}, close |-> {}, ws |-> FALSE],
    [sep1 |-> {"nian"}, sep2 |-> {"yue"}, close |-> {"ri"}, ws |-> TRUE],
    [sep1 |-> {"."}, sep2 |-> {"."}, close |-> {}, ws |-> FALSE] >>

\* The month and the day of a match whose month starts at b: the groups, or
\* None.  \d{1,2} is greedy; giving back a digit never helps, since what must
\* follow is not a digit.
MatchTail(s, i, b, pat) ==
    The({ The({
        IF n2 = 0 \/ ~(c <= Len(s) /\ s[c] \in pat.sep2) THEN None
        ELSE The({ The({
                 IF n3 = 0 THEN None
                 ELSE IF pat.close # {} /\ ~(f <= Len(s) /\ s[f] \in pat.close) THEN None
                 ELSE <<ToInt(SubSeq(s, i, i + 3)), ToInt(SubSeq(s, b, b + n2 - 1)),
                        ToInt(SubSeq(s, e, e + n3 - 1))>>
                 : f \in {SkipBlanks(s, e + n3, pat.ws)} })
                 : e \in {SkipBlanks(s, c + 1, pat.ws)}, n3 \in {DigitRun(s, SkipBlanks(s, c + 1, pat.ws))} })
        : c \in {SkipBlanks(s, b + n2, pat.ws)} })
        : n2 \in {DigitRun(s, b)} })

\* pat.match at position i of s: the three groups as numbers, or None
MatchAt(s, i, pat) ==
    IF ~(i + 3 <= Len(s) /\ \A k \in i..(i + 3) : IsDigit(s[k])) THEN None
    ELSE The({ IF ~(a <= Len(s) /\ s[a] \in pat.sep1) THEN None
               ELSE MatchTail(s, i, SkipBlanks(s, a + 1, pat.ws), pat)
               : a \in {SkipBlanks(s, i + 4, pat.ws)} })

\* pat.search(text): the groups of the leftmost match, or None
Search(str, pat) ==
    The({ The({ IF hits = {} THEN None ELSE MatchAt(s, Least(hits), pat)
                : hits \in {{i \in DOMAIN s : MatchAt(s, i, pat) # None}} })
          : s \in {str} })

\* f"{y:04d}-{mo:02d}-{d:02d}": formatting integers never raises, so the except
\* branch of extract_date is dead and the groups are returned as they are
FormatYMD(g) == g

\* dtparser.parse(text, fuzzy=True) is the library's guess: a text carries the
\* guess the library makes for it (None when it raises).
FuzzyDate(text) ==
    IF text.fuzzy # None /\ text.fuzzy[1] >= 2000 THEN text.fuzzy ELSE None

extract_date(text) ==
    IF text.chars = <<>> THEN None
    ELSE The({ IF m1 # None THEN FormatYMD(m1)
               ELSE The({ IF m2 # None THEN FormatYMD(m2)
                          ELSE The({ IF m3 # None THEN FormatYMD(m3) ELSE FuzzyDate(text)
                                     : m3 \in {Search(text.chars, DATE_PATTERNS[3])} })
                          : m2 \in {Search(text.chars, DATE_PATTERNS[2])} })
               : m1 \in {Search(text.chars, DATE_PATTERNS[1])} })

\* dtparser.parse(pub_date) on a "YYYY-MM-DD" string: the date, or raises
ParseRaises(pub_date) == ~ValidDate(pub_date)

(***************************************************************************)
(* Parts of the state                                                      *)
(***************************************************************************)
\* the parts of the state a specification does not use stay as constructed
IdleCanon == cin = <<>> /\ ckeys = <<>>
IdleDate  == dtext = <<>> /\ dres = <<>>
IdleRun   == now = 0 /\ config = <<>>
IdlePipe  == /\ pipe = "none" /\ cands = <<>> /\ items = <<>> /\ filtered = <<>>
             /\ out = <<>> /\ fetches = <<>>
IdleMerge == /\ store = <<>> /\ batch = <<>> /\ before = <<>> /\ added = 0
             /\ runs = 0 /\ offered = 0 /\ again = FALSE
IdleMain  == /\ pc = "idle" /\ failed = "none" /\ all_items = <<>>
             /\ out_csv = <<>> /\ added_count = <<>>

(***************************************************************************)
(* The URL canonicalizer on its own: two URLs are drawn, each is           *)
(* canonicalized.                                                          *)
(***************************************************************************)
ExampleCom  == <<"e","x","a","m","p","l","e",".","c","o","m">>
ExampleComM == <<"E","x","a","m","p","l","e",".","c","o","m">>
WwwDotM     == <<"W","W","W",".">>

\* The parts a URL input is written from.  bad puts an unclosed "[" in the host.
UrlParts ==
    [scheme : {<<"h","t","t","p">>, <<"h","t","t","p","s">>},
     www : BOOLEAN, upper : BOOLEAN,
     path : {<<>>, <<"/","a">>}, slash : BOOLEAN,
     query : {<<>>, <<"q","=","1">>, <<"q","=","2">>},
     frag : BOOLEAN, bad : BOOLEAN]

UrlInputs == {c \in UrlParts : c.bad => (c.query = <<>> /\ ~c.frag /\ ~c.upper)}

\* the URL string the parts spell
Render(c) ==
    c.scheme \o <<":","/","/">>
    \o (IF c.bad THEN <<"[">> ELSE <<>>)
    \o (IF c.www THEN (IF c.upper THEN WwwDotM ELSE WwwDot) ELSE <<>>)
    \o (IF c.upper THEN ExampleComM ELSE ExampleCom)
    \o c.path
    \o (IF c.slash THEN <<"/">> ELSE <<>>)
    \o (IF c.query # <<>> THEN <<"?">> \o c.query ELSE <<>>)
    \o (IF c.frag THEN <<"#","f">> ELSE <<>>)

InitCanon ==
    /\ cin \in UrlInputs \X UrlInputs
    /\ ckeys = <<>>
    /\ IdleDate /\ IdleRun /\ IdlePipe /\ IdleMerge /\ IdleMain

\* one call of canonicalize_url_for_dedup, on the next input
Canonicalize ==
    /\ Len(ckeys) < 2
    /\ ckeys' = Append(ckeys, canonicalize_url_for_dedup(Render(cin[Len(ckeys) + 1])))
    /\ UNCHANGED <<cin, dateVars, now, config, pipeVars, mergeVars, mainVars>>

(***************************************************************************)
(* The date resolver on its own: a text is drawn, extract_date resolves it *)
(***************************************************************************)
DatePieces == {
    <<>>,
    <<"a","b">>,
    <<"2","0","2","6","-","0","1","-","1","6">>,
    <<"2","0","2","6","/","1","/","6">>,
    <<"2","0","2","6","-","1","3","-","4","5">>,
    <<"2","0","2","6","-","0","2","-","3","0">>,
    <<"2","0","2","6","nian","1","yue","1","6","ri">>,
    <<"2","0","2","6"," ","nian","1","3","yue"," ","1","ri">>,
    <<"2","0","2","6",".","0","1",".","1","7">>,
    <<"2","0","2","6",".","1",".","4","5">>,
    <<"2","0","2","6","-","1","2">> }

FuzzyGuesses == {None, <<2026, 1, 5>>, <<1999, 1, 5>>}

DateTexts ==
    {[chars |-> p \o q, fuzzy |-> f] : p \in DatePieces, q \in DatePieces, f \in FuzzyGuesses}
    \cup {[chars |-> p \o <<" ">> \o q, fuzzy |-> f] :
              p \in DatePieces, q \in DatePieces, f \in FuzzyGuesses}

InitDate ==
    /\ dtext \in DateTexts
    /\ dres = <<>>
    /\ IdleCanon /\ IdleRun /\ IdlePipe /\ IdleMerge /\ IdleMain

\* one call of extract_date
ExtractDate ==
    /\ dres = <<>>
    /\ dres' = <<extract_date(dtext)>>
    /\ UNCHANGED <<dtext, canonVars, now, config, pipeVars, mergeVars, mainVars>>

(***************************************************************************)
(* Item, keyword_hit, within_window                                        *)
(***************************************************************************)
Item(title, publisher, url, pub_date, source, fetched_at) ==
    [title |-> title, publisher |-> publisher, url |-> url, pub_date |-> pub_date,
     source |-> source, fetched_at |-> fetched_at]

\* the concatenation of the sequences seqs[i], seqs[i+1], ...
RECURSIVE FlattenFrom(_, _)
FlattenFrom(seqs, i) == IF i > Len(seqs) THEN <<>> ELSE seqs[i] \o FlattenFrom(seqs, i + 1)

keyword_hit(title, keywords) ==
    The({ \E i \in DOMAIN keywords : Contains(t, Lower(keywords[i]))
          : t \in {Lower(title)} })

\* the lower bound of the window: (now - timedelta(days=hard_cap_days)).date()
WindowLower(tnow, hard_cap_days) == DateOf(tnow - Days(hard_cap_days))

within_window(pub_date, tnow, window_days, hard_cap_days) ==
    IF pub_date = None THEN TRUE
    ELSE IF ParseRaises(pub_date) THEN TRUE
    ELSE The({ IF ~(WindowLower(tnow, hard_cap_days) <= d /\ d <= DateOf(tnow)) THEN FALSE
               ELSE (d >= DateOf(tnow - Days(window_days))) \/ TRUE
               : d \in {ToOrdinal(pub_date)} })

\* now.astimezone(SG_TZ).isoformat(timespec="seconds"): now is already in the
\* +08:00 zone, and the text orders as the instant does
FetchedAt(tnow) == tnow

(***************************************************************************)
(* The intra-batch dedup loop shared by parse_miit_home and parse_gov_home *)
(***************************************************************************)
\* whether the loop replaces uniq[key] = old by it
Replaces_Always(old, it) == TRUE
Replaces(old, it) ==
    \/ old.pub_date = None /\ it.pub_date # None
    \/ /\ old.pub_date # None /\ it.pub_date # None
       /\ ~ParseRaises(it.pub_date) /\ ~ParseRaises(old.pub_date)
       /\ ToOrdinal(it.pub_date) > ToOrdinal(old.pub_date)

\* uniq: Dict[str, Item], as its entries [key, it] in insertion order.
\* The places of the entry with this key (at most one):
KeyPlaces(uniq, key) == {i \in DOMAIN uniq : uniq[i].key = key}

\* list(uniq.values())
Values(uniq) == [i \in 1..Len(uniq) |-> uniq[i].it]

\* one turn of the loop
DedupStep(uniq, it) ==
    The({ The({ IF at = {} THEN Append(uniq, [key |-> key, it |-> it])
                ELSE IF Replaces(uniq[The(at)].it, it) THEN [uniq EXCEPT ![The(at)].it = it]
                ELSE uniq
                : at \in {KeyPlaces(uniq, key)} })
          : key \in {canonicalize_url_for_dedup(it.url)} })

\* for it in filtered[i:]
RECURSIVE DedupLoop(_, _, _)
DedupLoop(uniq, its, i) ==
    IF i > Len(its) THEN uniq
    ELSE The({ DedupLoop(u, its, i + 1) : u \in {DedupStep(uniq, its[i])} })

(***************************************************************************)
(* parse_miit_home                                                         *)
(***************************************************************************)
MiitTitleMin == 6

\* build_item of parse_miit_home: <<the Item>>, or <<>> for None
miit_build_item(src, tnow, titleArg, hrefArg, pub_date, source_tag) ==
    The({ IF title = <<>> \/ Len(title) < MiitTitleMin \/ href = <<>> THEN <<>>
          ELSE <<Item(title, src.name, normalize_url(src.url, href), pub_date,
                      source_tag, FetchedAt(tnow))>>
          : title \in {Strip(titleArg)}, href \in {Strip(hrefArg)} })

get_pub_date_from_container(c) ==
    The({ IF pub_date = None THEN extract_date(c.container_text) ELSE pub_date
          : pub_date \in {extract_date(c.date_text)} })

\* add_primary_link over the containers, in document order
MiitItems(src, tnow, cs) ==
    The({ FlattenFrom(built, 1)
          : built \in {[i \in 1..Len(cs) |->
                           miit_build_item(src, tnow, cs[i].title, cs[i].href,
                                           get_pub_date_from_container(cs[i]), cs[i].tag)]} })

MiitPasses(cfg, tnow, it) ==
    /\ keyword_hit(it.title, cfg.keywords)
    /\ within_window(it.pub_date, tnow, cfg.window_days, cfg.hard_cap_days)

\* parse_miit_home(config, now), given the containers the page yields
parse_miit_home(cfg, tnow, cs) ==
    The({ The({ [items |-> its, filtered |-> flt, out |-> Values(DedupLoop(<<>>, flt, 1)),
                 fetches |-> <<>>]
                : flt \in {SelectSeq(its, LAMBDA it : MiitPasses(cfg, tnow, it))} })
          : its \in {MiitItems(cfg.miit_home, tnow, cs)} })

(***************************************************************************)
(* parse_gov_home                                                          *)
(***************************************************************************)
GovTitleMin == 4

\* "/" (20\d{2}) (0[1-9]|1[0-2]) "/" at position i of the url
GovMonthAt(s, i) ==
    /\ i + 7 <= Len(s)
    /\ s[i] = "/" /\ s[i + 1] = "2" /\ s[i + 2] = "0"
    /\ IsDigit(s[i + 3]) /\ IsDigit(s[i + 4])
    /\ \/ s[i + 5] = "0" /\ IsDigit(s[i + 6]) /\ s[i + 6] # "0"
       \/ s[i + 5] = "1" /\ s[i + 6] \in {"0", "1", "2"}
    /\ s[i + 7] = "/"

\* what _RE_GOV_YYYYMM allows between the month's "/" and the end of the url
GovTails == {<<>>, <<"c","o","n","t","e","n","t","_">>,
             <<"i","n","d","e","x",".","h","t","m">>}

extract_gov_date_from_url(urlArg) ==
    The({ The({ The({
        IF hits = {} THEN None
        ELSE <<ToInt(SubSeq(url, Least(hits) + 1, Least(hits) + 4)),
               ToInt(SubSeq(url, Least(hits) + 5, Least(hits) + 6)), 1>>
        : hits \in {IF {i \in any : From(url, i + 7) \in GovTails} # {}
                    THEN {i \in any : From(url, i + 7) \in GovTails} ELSE any} })
        : any \in {{i \in DOMAIN url : GovMonthAt(url, i)}} })
        : url \in {urlArg} })

\* build_item of parse_gov_home: <<the Item>>, or <<>> for None
gov_build_item(src, tnow, c) ==
    The({ IF title = <<>> \/ Len(title) < GovTitleMin \/ href = <<>> THEN <<>>
          ELSE The({ The({
                   <<Item(title, src.name, url,
                          IF fromTitle = None THEN extract_gov_date_from_url(url) ELSE fromTitle,
                          c.tag, FetchedAt(tnow))>>
                   : fromTitle \in {extract_date([chars |-> title, fuzzy |-> c.fuzzy])} })
                   : url \in {normalize_url(src.url, href)} })
          : title \in {Strip(c.title)}, href \in {Strip(c.href)} })

\* add_links over the anchors, in document order
GovItems(src, tnow, cs) ==
    The({ FlattenFrom(built, 1)
          : built \in {[i \in 1..Len(cs) |-> gov_build_item(src, tnow, cs[i])]} })

\* one turn of the temp_uniq loop: the first Item of each canonical key stays
TempStep(uniq, it) ==
    The({ IF KeyPlaces(uniq, key) # {} THEN uniq ELSE Append(uniq, [key |-> key, it |-> it])
          : key \in {canonicalize_url_for_dedup(it.url)} })

RECURSIVE TempUniq(_, _, _)
TempUniq(uniq, its, i) ==
    IF i > Len(its) THEN uniq
    ELSE The({ TempUniq(u, its, i + 1) : u \in {TempStep(uniq, its[i])} })

\* resolve_pub_date_for_url(it.url) and the assignment that follows it, on the
\* state acc: the Items done, pub_cache (url and date pairs) and the urls
\* fetched.  page is what the next fetch yields: ok = FALSE when http_get
\* raises, else date is what extract_gov_pub_date_from_article_html finds.
ResolveStep(acc, it, page) ==
    The({ The({
        [done    |-> Append(acc.done, IF d # None THEN [it EXCEPT !.pub_date = d] ELSE it),
         cache   |-> IF hit # {} THEN acc.cache
                     ELSE Append(acc.cache, [url |-> it.url, date |-> d]),
         fetched |-> IF hit # {} THEN acc.fetched ELSE Append(acc.fetched, it.url)]
        : d \in {IF hit # {} THEN acc.cache[The(hit)].date
                 ELSE IF page.ok THEN page.date ELSE None} })
        : hit \in {{i \in DOMAIN acc.cache : acc.cache[i].url = it.url}} })

\* for it in uniq_items[:resolve_cap]; web[k] is what the k-th fetch yields
RECURSIVE ResolveLoop(_, _, _, _, _)
ResolveLoop(acc, its, i, n, web) ==
    IF i > n THEN acc
    ELSE The({ ResolveLoop(a, its, i + 1, n, web)
               : a \in {ResolveStep(acc, its[i],
                                    IF Len(acc.fetched) < Len(web)
                                    THEN web[Len(acc.fetched) + 1]
                                    ELSE [ok |-> FALSE, date |-> None])} })

Min(a, b) == IF a <= b THEN a ELSE b

GovPasses(cfg, tnow, it) ==
    /\ keyword_hit(it.title, cfg.keywords)
    /\ it.pub_date # None => within_window(it.pub_date, tnow, cfg.window_days, cfg.hard_cap_days)

\* how many Items uniq_items[:resolve_cap] holds, of n
ResolveCount_All(resolve_cap, n) == n
ResolveCount(resolve_cap, n) ==
    IF resolve_cap >= 0 THEN Min(resolve_cap, n)
    ELSE IF n + resolve_cap > 0 THEN n + resolve_cap ELSE 0

\* the part of parse_gov_home that back-fills the dates: items and fetches
GovResolve(cfg, built) ==
    IF ~cfg.resolve_pub_date THEN [items |-> built, fetches |-> <<>>]
    ELSE The({ The({ The({
             [items |-> res.done \o SubSeq(uniq_items, n + 1, Len(uniq_items)),
              fetches |-> res.fetched]
             : res \in {ResolveLoop([done |-> <<>>, cache |-> <<>>, fetched |-> <<>>],
                                    uniq_items, 1, n, cfg.web)} })
             : n \in {ResolveCount(cfg.resolve_pub_date_cap, Len(uniq_items))} })
             : uniq_items \in {Values(TempUniq(<<>>, built, 1))} })

\* parse_gov_home(config, now), given the anchors the page yields; cfg.web is
\* what the article pages yield
parse_gov_home(cfg, tnow, cs) ==
    The({ The({ [items |-> r.items, filtered |-> flt, out |-> Values(DedupLoop(<<>>, flt, 1)),
                 fetches |-> r.fetches]
                : flt \in {SelectSeq(r.items, LAMBDA it : GovPasses(cfg, tnow, it))} })
          : r \in {GovResolve(cfg, GovItems(cfg.gov_home, tnow, cs))} })

(***************************************************************************)
(* parse_qqnews_search                                                     *)
(***************************************************************************)
FenZhongQian == <<"fen","zhong","qian">>
XiaoShiQian  == <<"xiao","shi","qian">>
TianQian     == <<"tian","qian">>

\* int(s.replace(suffix, "").strip()) for s ending in suffix: <<n>>, or <<>>
\* when int() raises
IntBefore(s, suffix) ==
    The({ IF body # <<>> /\ \A i \in DOMAIN body : IsDigit(body[i])
          THEN <<ToInt(body)>> ELSE <<>>
          : body \in {Strip(SubSeq(s, 1, Len(s) - Len(suffix)))} })

\* the relative forms: <<now - delta>>, or <<>> when s has none of the three
\* suffixes or int() raises
RelativeTime(s, tnow) ==
    IF EndsWith(s, FenZhongQian)
    THEN The({ IF n = <<>> THEN <<>> ELSE <<tnow - n[1]>> : n \in {IntBefore(s, FenZhongQian)} })
    ELSE IF EndsWith(s, XiaoShiQian)
    THEN The({ IF n = <<>> THEN <<>> ELSE <<tnow - Hours(n[1])>> : n \in {IntBefore(s, XiaoShiQian)} })
    ELSE IF EndsWith(s, TianQian)
    THEN The({ IF n = <<>> THEN <<>> ELSE <<tnow - Days(n[1])>> : n \in {IntBefore(s, TianQian)} })
    ELSE <<>>

\* _parse_qqnews_time_to_dt(s, now): None or <<dt>>.  t.chars is the time
\* field; t.fuzzy is the datetime dtparser.parse(s, fuzzy=True) gives in the
\* +08:00 zone, as <<dt>>, or None when it raises.
parse_qqnews_time_to_dt(t, tnow) ==
    The({ IF s = <<>> THEN None
          ELSE The({ IF rel # <<>> THEN rel ELSE t.fuzzy : rel \in {RelativeTime(s, tnow)} })
          : s \in {Strip(t.chars)} })

\* one entry of a page's newsList, on acc: the Items kept and page_min_dt
QQEntry(acc, n, src, tnow, threshold) ==
    The({ IF \/ (n.component # "" /\ n.component # "pictext")
             \/ title = <<>> \/ url = <<>> \/ dt = None
          THEN acc
          ELSE [items |-> IF dt[1] < threshold THEN acc.items
                          ELSE Append(acc.items,
                                      Item(title, src.name, url, FromOrdinal(DateOf(dt[1])),
                                           src.tag, FetchedAt(tnow))),
                min |-> IF acc.min = None \/ dt[1] < acc.min[1] THEN dt ELSE acc.min]
          : title \in {Strip(n.title)}, url \in {Strip(n.url)},
            dt \in {parse_qqnews_time_to_dt(n.time, tnow)} })

\* the newsList loop of one page
RECURSIVE QQPage(_, _, _, _, _, _)
QQPage(acc, news, i, src, tnow, threshold) ==
    IF i > Len(news) THEN acc
    ELSE The({ QQPage(a, news, i + 1, src, tnow, threshold)
               : a \in {QQEntry(acc, news[i], src, tnow, threshold)} })

\* the loop over range(max_pages); pages[p] is the response to page p - 1
RECURSIVE QQPages(_, _, _, _, _)
QQPages(p, pages, src, tnow, threshold) ==
    IF p > src.max_pages \/ p > Len(pages) THEN <<>>
    ELSE The({ r.items \o
               (IF ~pages[p].hasMore \/ (r.min # None /\ r.min[1] < threshold) THEN <<>>
                ELSE QQPages(p + 1, pages, src, tnow, threshold))
               : r \in {QQPage([items |-> <<>>, min |-> None], pages[p].news, 1,
                               src, tnow, threshold)} })

\* parse_qqnews_search(config, now), given the pages the API returns
parse_qqnews_search(cfg, tnow, pages) ==
    The({ The({ [items |-> its, filtered |-> flt, out |-> flt, fetches |-> <<>>]
                : flt \in {SelectSeq(its, LAMBDA it : keyword_hit(it.title, cfg.keywords))} })
          : its \in {QQPages(1, pages, cfg.qqnews_search, tnow, tnow - Days(cfg.window_days))} })

(***************************************************************************)
(* One call of a source pipeline: the clock, the configuration and what    *)
(* the page yields are drawn, the pipeline runs once.                      *)
(***************************************************************************)
\* candidates on a home page
MaxCands == 2
\* entries of one search-result page
MaxNews == 1

\* all sequences over S of length at most n
SeqsUpTo(S, n) == UNION {[1..k -> S] : k \in 0..n}

TitlePolicy == <<"guan","yu","5","G","de","zheng","ce","jie","du">>
TitleOther  == <<"bu","ling","dao","hui","jian","ke","ren">>
TitleFive   == <<"xin","zheng","ce","jie","du">>
TitleThree  == <<"zheng","ce","ku">>
KeywordPolicy == <<"zheng","ce">>

D0119 == <<"2","0","2","6","-","0","1","-","1","9">>
D0120 == <<"2","0","2","6","-","0","1","-","2","0">>
D0121 == <<"2","0","2","6","-","0","1","-","2","1">>
D0203 == <<"2","0","2","6","-","0","2","-","0","3">>
D0204 == <<"2","0","2","6","-","0","2","-","0","4">>
D1345 == <<"2","0","2","6","-","1","3","-","4","5">>

BaseExample == HttpsPrefix \o ExampleCom
HrefA    == <<"/","z","f","x","x","g","k","/","a",".","h","t","m","l">>
HrefAWww == <<"/","/">> \o WwwDot \o ExampleCom \o HrefA
HrefB    == <<"b",".","h","t","m","l">>
HrefGov  == <<"/","z","c","/","2","0","2","6","0","1","/","c","o","n","t","e","n","t","_","1">>

NowChoices == {At(<<2026, 2, 3>>, 0, 30)}

Configs ==
    [keywords : {<<KeywordPolicy>>},
     window_days : {7, 15},
     hard_cap_days : {14},
     resolve_pub_date : BOOLEAN,
     resolve_pub_date_cap : {1, 60},
     web : {<<>>},
     miit_home : {[url |-> BaseExample, name |-> "MIIT"]},
     gov_home : {[url |-> BaseExample \o <<"/">>, name |-> "GOV"]},
     qqnews_search : [name : {"QQ"}, tag : {"QQ-search"}, max_pages : {1, 2}]]

\* keys a pipeline does not read keep their documented defaults
MiitConfigs == {c \in Configs : c.resolve_pub_date /\ c.resolve_pub_date_cap = 60
                                /\ c.qqnews_search.max_pages = 2}
GovConfigs  == {c \in Configs : /\ c.qqnews_search.max_pages = 2
                                /\ ~c.resolve_pub_date => c.resolve_pub_date_cap = 60}
QQConfigs   == {c \in Configs : c.resolve_pub_date /\ c.resolve_pub_date_cap = 60}

\* a container of the MIIT home page: the anchor's text and href, the text of
\* its date span, and the text of the whole container
MiitCand(title, href, date, whole) ==
    [title |-> title, href |-> href, tag |-> "MIIT-home",
     date_text |-> [chars |-> date, fuzzy |-> None],
     container_text |-> [chars |-> whole, fuzzy |-> None]]

MiitCands ==
    {MiitCand(TitlePolicy, HrefA, d, TitlePolicy \o <<" ">> \o d) :
        d \in {<<>>, D0119, D0120, D0121, D0203, D0204, D1345}}
    \cup {MiitCand(TitlePolicy, HrefAWww, d, TitlePolicy \o <<" ">> \o d) :
        d \in {<<>>, D0120, D0121, D1345}}
    \cup {MiitCand(TitleOther, HrefA, D0121, TitleOther \o <<" ">> \o D0121),
          MiitCand(TitleFive, HrefA, D0121, TitleFive \o <<" ">> \o D0121),
          MiitCand(TitlePolicy, <<" ">>, D0121, TitlePolicy \o <<" ">> \o D0121),
          MiitCand(TitlePolicy, HrefB, <<>>, TitlePolicy \o <<" ">> \o D0121)}

\* an anchor of the gov.cn home page; fuzzy is the permissive parser's guess
\* for the title
GovCand(title, href, fuzzy) == [title |-> title, href |-> href, tag |-> "GOV-home", fuzzy |-> fuzzy]

GovCands ==
    {GovCand(TitlePolicy, HrefA, None),
     GovCand(D0120 \o TitleFive, HrefA, None),
     GovCand(D0121 \o TitleFive, HrefAWww, None),
     GovCand(TitlePolicy, HrefGov, None),
     GovCand(TitleOther, HrefA, <<2026, 2, 2>>),
     GovCand(TitleThree, HrefB, None)}

\* what an article page yields
ArticleOutcomes ==
    {[ok |-> FALSE, date |-> None], [ok |-> TRUE, date |-> None],
     [ok |-> TRUE, date |-> <<2026, 1, 30>>], [ok |-> TRUE, date |-> <<2026, 2, 30>>]}

\* an entry of a search-result page: its section's component, title, url, time
QQNews(component, title, url, time, fuzzy) ==
    [component |-> component, title |-> title, url |-> url,
     time |-> [chars |-> time, fuzzy |-> fuzzy]]

QQUrlA == HttpsPrefix \o <<"q","q",".","c","o","m","/","a">>
QQUrlB == HttpsPrefix \o <<"q","q",".","c","o","m","/","b">>

QQEntries ==
    {QQNews("pictext", TitlePolicy, QQUrlA, <<"1","tian","qian">>, None),
     QQNews("", TitlePolicy, QQUrlB, <<"1","5","tian","qian">>, None),
     QQNews("pictext", TitlePolicy, QQUrlA, <<>>, None),
     QQNews("pictext", TitlePolicy, QQUrlB, <<"2","0","2","6","-","0","3","-","0","5">>,
            <<At(<<2026, 3, 5>>, 0, 0)>>),
     QQNews("pictext", TitlePolicy, QQUrlA, <<"1","6","tian","qian">>, None),
     QQNews("pictext", TitleOther, QQUrlB, <<"2","xiao","shi","qian">>, None),
     QQNews("video", TitlePolicy, QQUrlA, <<"3","0","fen","zhong","qian">>, None),
     QQNews("pictext", TitlePolicy, QQUrlB, <<"a","b">>, None)}

QQPageChoices == [news : SeqsUpTo(QQEntries, MaxNews), hasMore : BOOLEAN]

InitPipe ==
    /\ now \in NowChoices
    /\ config = <<>>
    /\ IdlePipe
    /\ IdleCanon /\ IdleDate /\ IdleMerge /\ IdleMain

Ran(name, cfg, cs, r) ==
    /\ pipe' = name
    /\ config' = cfg
    /\ cands' = cs
    /\ items' = r.items
    /\ filtered' = r.filtered
    /\ out' = r.out
    /\ fetches' = r.fetches
    /\ UNCHANGED <<now, canonVars, dateVars, mergeVars, mainVars>>

ParseMiitHome ==
    /\ pipe = "none"
    /\ \E cfg \in MiitConfigs, cs \in SeqsUpTo(MiitCands, MaxCands) :
           Ran("miit", cfg, cs, parse_miit_home(cfg, now, cs))

ParseGovHome ==
    /\ pipe = "none"
    /\ \E cfg \in GovConfigs, cs \in SeqsUpTo(GovCands, MaxCands) :
           \E web \in [1..(IF cfg.resolve_pub_date
                             THEN Min(cfg.resolve_pub_date_cap, Len(cs)) ELSE 0)
                         -> ArticleOutcomes] :
               \E c \in {[cfg EXCEPT !.web = web]} : Ran("gov", c, cs, parse_gov_home(c, now, cs))

ParseQQNewsSearch ==
    /\ pipe = "none"
    /\ \E cfg \in QQConfigs, p1 \in QQPageChoices, p2 \in QQPageChoices :
           /\ ~p2.hasMore
           /\ (cfg.qqnews_search.max_pages = 1 \/ ~p1.hasMore) => p2.news = <<>>
           /\ Ran("qqnews", cfg, <<p1, p2>>, parse_qqnews_search(cfg, now, <<p1, p2>>))

(***************************************************************************)
(* The store merger: load_existing, dedup_merge, and main's write-back     *)
(*                                                                         *)
(* A table is the sequence of its rows, a row the record of its six        *)
(* columns (named as the Item fields they come from).  A pub_date cell is  *)
(* a date triple, the empty string, or NaN (what read_csv gives for an     *)
(* empty field).                                                           *)
(***************************************************************************)
EmptyStr == <<>>
NaN      == <<0>>
\* the text "0000-00-00"
ZeroDate == <<0, 0, 0>>

\* str order on two "YYYY-MM-DD" texts: a > b
DateGreater(a, b) ==
    \/ a[1] > b[1]
    \/ a[1] = b[1] /\ a[2] > b[2]
    \/ a[1] = b[1] /\ a[2] = b[2] /\ a[3] > b[3]

\* merged.to_csv(...): the file's rows; an empty string and NaN are both
\* written as an empty field
to_csv(df) ==
    [i \in 1..Len(df) |->
        [df[i] EXCEPT !.pub_date = IF @ = NaN \/ @ = EmptyStr THEN EmptyStr ELSE @]]

\* pd.read_csv(csv_path): an empty field is read as NaN
read_csv(csv) ==
    [i \in 1..Len(csv) |-> [csv[i] EXCEPT !.pub_date = IF @ = EmptyStr THEN NaN ELSE @]]

\* load_existing(csv_path); exists is os.path.exists(csv_path)
load_existing(exists, csv) == IF ~exists THEN <<>> ELSE read_csv(csv)

\* Series.astype(str) on one cell
AsStr(v) == IF v = NaN THEN <<"n","a","n">> ELSE v

\* the row dict built from an Item
RowOf(it) == [it EXCEPT !.pub_date = IF it.pub_date = None THEN EmptyStr ELSE it.pub_date]

\* `it.url in existing_urls`
UrlIn_Canonical(url, existing_urls) ==
    canonicalize_url_for_dedup(url) \in {canonicalize_url_for_dedup(u) : u \in existing_urls}
UrlIn(url, existing_urls) == url \in existing_urls

\* one turn of `for it in new_items`, on acc: rows, existing_urls and added
AppendStep(acc, it) ==
    IF UrlIn(it.url, acc.urls) THEN acc
    ELSE [rows |-> Append(acc.rows, RowOf(it)), urls |-> acc.urls \cup {it.url},
          added |-> acc.added + 1]

RECURSIVE AppendLoop(_, _, _)
AppendLoop(acc, new_items, i) ==
    IF i > Len(new_items) THEN acc
    ELSE The({ AppendLoop(a, new_items, i + 1) : a \in {AppendStep(acc, new_items[i])} })

\* pd.concat([existing, pd.DataFrame(rows)], ignore_index=True)
Concat_NewOnly(existing, rows) == rows
Concat(existing, rows) == existing \o rows

\* sort_key(row)
sort_key(row) == IF row.pub_date = EmptyStr THEN ZeroDate ELSE row.pub_date

\* the two columns sort_values sorts by
SortColumns_DateOnly(row) == <<sort_key(row), 0>>
SortColumns(row) == <<sort_key(row), row.fetched_at>>

\* sort_values(by=[...], ascending=[False, False]) puts a strictly before b:
\* descending on each column, NaN last (na_position="last")
Precedes(a, b) ==
    The({ \/ ka[1] # NaN /\ kb[1] = NaN
          \/ ka[1] # NaN /\ kb[1] # NaN /\ DateGreater(ka[1], kb[1])
          \/ ka[1] = kb[1] /\ ka[2] > kb[2]
          : ka \in {SortColumns(a)}, kb \in {SortColumns(b)} })

\* where the next row goes among the rows sorted so far: before the first
\* row it strictly precedes, else at the end (the sort is stable)
PlaceOf_TiesFirst(sorted, row) ==
    The({ IF js = {} THEN Len(sorted) + 1 ELSE Least(js)
          : js \in {{j \in DOMAIN sorted : ~Precedes(sorted[j], row)}} })
PlaceOf(sorted, row) ==
    The({ IF js = {} THEN Len(sorted) + 1 ELSE Least(js)
          : js \in {{j \in DOMAIN sorted : Precedes(row, sorted[j])}} })

InsertAt(s, j, row) == SubSeq(s, 1, j - 1) \o <<row>> \o SubSeq(s, j, Len(s))

RECURSIVE SortFrom(_, _, _)
SortFrom(sorted, df, i) ==
    IF i > Len(df) THEN sorted
    ELSE The({ SortFrom(s, df, i + 1)
               : s \in {InsertAt(sorted, PlaceOf(sorted, df[i]), df[i])} })

sort_values(df) == SortFrom(<<>>, df, 1)

\* dedup_merge(existing, new_items): the merged table and the added count
dedup_merge(existing, new_items) ==
    The({ The({
        [merged |-> IF new_df # <<>> THEN sort_values(new_df) ELSE new_df,
         added  |-> r.added]
        : new_df \in {IF r.rows # <<>> THEN Concat(existing, r.rows) ELSE existing} })
        : r \in {AppendLoop([rows |-> <<>>,
                             urls |-> IF existing = <<>> THEN {}
                                      ELSE {AsStr(existing[i].url) : i \in DOMAIN existing},
                             added |-> 0],
                            new_items, 1)} })

(***************************************************************************)
(* Runs of main against the store: each run reads the clock, collects a    *)
(* batch, loads the csv, merges and writes the csv back.                   *)
(***************************************************************************)
\* runs of main
MaxRuns == 2
\* Items handed to dedup_merge over all runs
MaxOffered == 3

UrlX      == HttpsPrefix \o <<"a",".","e","x","a","m","p","l","e","/","x">>
UrlXSlash == UrlX \o <<"/">>
UrlY      == HttpsPrefix \o <<"a",".","e","x","a","m","p","l","e","/","y">>
UrlZ      == HttpsPrefix \o <<"a",".","e","x","a","m","p","l","e","/","z">>

\* what a pipeline can hand over: a url and a pub_date
Found == {<<UrlX, <<2026, 1, 21>>>>, <<UrlXSlash, <<2026, 1, 20>>>>, <<UrlY, None>>,
          <<UrlY, <<2026, 1, 21>>>>, <<UrlZ, None>>}

FirstRunAt == At(<<2026, 2, 3>>, 12, 0)
\* how far the clock is on when the next run starts
ClockSteps == {0, Days(1)}

BatchAt(fs, tnow) ==
    [i \in 1..Len(fs) |->
        Item(TitlePolicy, <<"m","i","i","t">>, fs[i][1], fs[i][2], <<"h","o","m","e">>,
             FetchedAt(tnow))]

InitMerge ==
    /\ now = FirstRunAt
    /\ config = <<>>
    /\ IdleMerge
    /\ IdleCanon /\ IdleDate /\ IdlePipe /\ IdleMain

Merged(existing, new_items, r) ==
    /\ store' = r.merged
    /\ added' = r.added
    /\ before' = existing
    /\ batch' = new_items

\* main, from load_existing to to_csv
Run ==
    /\ runs < MaxRuns
    /\ \E step \in ClockSteps, fs \in SeqsUpTo(Found, MaxOffered - offered) :
          /\ now' = now + step
          /\ \E existing \in {load_existing(runs > 0, to_csv(store))},
                new_items \in {BatchAt(fs, now + step)} :
                 \E r \in {dedup_merge(existing, new_items)} :
                    Merged(existing, new_items, r)
          /\ offered' = offered + Len(fs)
    /\ runs' = runs + 1
    /\ again' = FALSE
    /\ UNCHANGED <<config, canonVars, dateVars, pipeVars, mainVars>>

\* dedup_merge once more, on the table it returned and the same batch
MergeAgain ==
    /\ runs > 0 /\ ~again
    /\ \E r \in {dedup_merge(store, batch)} : Merged(store, batch, r)
    /\ again' = TRUE
    /\ UNCHANGED <<now, runs, offered, config, canonVars, dateVars, pipeVars, mainVars>>

(***************************************************************************)
(* One run of main, statement by statement: the three source pipelines in  *)
(* turn, then load_existing and dedup_merge, then the two files.  A page   *)
(* fetch (http_get, _qqnews_search_fetch_page) either yields the page or   *)
(* raises on a timeout, a non-2xx status or a connection failure.          *)
(***************************************************************************)
\* candidates a source's page yields in a run of main
MaxPerSource == 1

\* config.yaml of the run: the documented defaults, back-filling on or off
MainConfigs == {c \in Configs : /\ c.window_days = 15 /\ c.resolve_pub_date_cap = 60
                                /\ c.qqnews_search.max_pages = 1}

InitMain ==
    /\ now \in NowChoices
    /\ config \in MainConfigs
    /\ pc = "miit" /\ failed = "none" /\ all_items = <<>>
    /\ out_csv = <<>> /\ added_count = <<>>
    /\ IdleCanon /\ IdleDate /\ IdlePipe /\ IdleMerge

\* all_items.extend(parse_x(config, now)), the page fetched: r is what
\* parse_x computes
Extended(name, cfg, cs, r, next) ==
    /\ pipe' = name
    /\ config' = cfg
    /\ cands' = cs
    /\ items' = r.items
    /\ filtered' = r.filtered
    /\ out' = r.out
    /\ fetches' = r.fetches
    /\ all_items' = all_items \o r.out
    /\ pc' = next
    /\ UNCHANGED <<failed, out_csv, added_count, now, canonVars, dateVars, mergeVars>>

\* resp.raise_for_status() or requests itself raises inside parse_x: neither
\* parse_x nor main has a handler around the call, the exception leaves main
Raised(name) ==
    /\ pc' = "raised"
    /\ failed' = name
    /\ UNCHANGED <<all_items, out_csv, added_count, now, config, canonVars, dateVars,
                   pipeVars, mergeVars>>

MainMiit ==
    /\ pc = "miit"
    /\ \/ Raised("miit")
       \/ \E cs \in SeqsUpTo(MiitCands, MaxPerSource) :
              Extended("miit", config, cs, parse_miit_home(config, now, cs), "gov")

MainGov ==
    /\ pc = "gov"
    /\ \/ Raised("gov")
       \/ \E cs \in SeqsUpTo(GovCands, MaxPerSource) :
              \E web \in [1..(IF config.resolve_pub_date THEN Len(cs) ELSE 0)
                            -> ArticleOutcomes] :
                  \E c \in {[config EXCEPT !.web = web]} :
                      Extended("gov", c, cs, parse_gov_home(c, now, cs), "qqnews")

MainQQNews ==
    /\ pc = "qqnews"
    /\ \/ Raised("qqnews")
       \/ \E p1 \in QQPageChoices :
              \E pages \in {<<p1, [news |-> <<>>, hasMore |-> FALSE]>>} :
                  Extended("qqnews", config, pages,
                           parse_qqnews_search(config, now, pages), "merge")

\* existing = load_existing(out_csv); merged, added = dedup_merge(existing, all_items)
MainMerge ==
    /\ pc = "merge"
    /\ \E existing \in {load_existing(out_csv # <<>>, IF out_csv # <<>> THEN out_csv[1] ELSE <<>>)} :
           \E r \in {dedup_merge(existing, all_items)} : Merged(existing, all_items, r)
    /\ pc' = "to_csv"
    /\ UNCHANGED <<runs, offered, again, failed, all_items, out_csv, added_count, now, config,
                   canonVars, dateVars, pipeVars>>

\* merged.to_csv(out_csv)
MainToCsv ==
    /\ pc = "to_csv"
    /\ out_csv' = <<to_csv(store)>>
    /\ pc' = "added_count"
    /\ UNCHANGED <<failed, all_items, added_count, now, config, canonVars, dateVars,
                   pipeVars, mergeVars>>

\* f.write(str(added))
MainAddedCount ==
    /\ pc = "added_count"
    /\ added_count' = <<added>>
    /\ pc' = "done"
    /\ UNCHANGED <<failed, all_items, out_csv, now, config, canonVars, dateVars,
                   pipeVars, mergeVars>>

(***************************************************************************)
(* Specifications                                                          *)
(***************************************************************************)
NextPipe == ParseMiitHome \/ ParseGovHome \/ ParseQQNewsSearch
SpecPipe == InitPipe /\ [][NextPipe]_vars

NextCanon == Canonicalize
SpecCanon == InitCanon /\ [][NextCanon]_vars

NextDate == ExtractDate
SpecDate == InitDate /\ [][NextDate]_vars

NextMerge == Run \/ MergeAgain
SpecMerge == InitMerge /\ [][NextMerge]_vars

NextMain == MainMiit \/ MainGov \/ MainQQNews \/ MainMerge \/ MainToCsv \/ MainAddedCount
SpecMain == InitMain /\ [][NextMain]_vars

(***************************************************************************)
(* Claims                                                                  *)
(***************************************************************************)
\* the urls of a table's rows, or of a batch's Items
UrlsOf(rows) == {rows[i].url : i \in DOMAIN rows}

\* C1: over any sequence of runs from an empty store, every row of the table
\* handed to dedup_merge is still a row of the table it returns, and no two
\* rows of the store carry the same raw url, whatever the batches repeat.
C1_NothingLostOrDuplicated ==
    /\ \A i \in DOMAIN before : \E j \in DOMAIN store : store[j] = before[i]
    /\ \A i, j \in DOMAIN store : store[i].url = store[j].url => i = j

\* C1 witness: a second run merged, into a store that had rows, a batch that
\* repeats a url of the store and also brings a new one
C1_Witness ==
    /\ runs = 2 /\ ~again
    /\ before # <<>>
    /\ UrlsOf(batch) \cap UrlsOf(before) # {}
    /\ Len(store) > Len(before)

\* C2: merging the same batch again into the table a merge returned adds
\* nothing and returns the same rows in the same order.
C2_MergeIdempotent == again => (added = 0 /\ store = before)

\* C2 witness: a batch was merged a second time into a table of several rows,
\* two of which tie on both sort columns
C2_Witness ==
    /\ again
    /\ batch # <<>>
    /\ \E i \in 1..(Len(store) - 1) :
          /\ store[i].pub_date = store[i + 1].pub_date
          /\ store[i].fetched_at = store[i + 1].fetched_at

\* C3: identity is the raw url string.  The added count is the number of
\* distinct urls of the batch that no existing row carries, the merged table
\* has len(existing) + added rows, the rows appended are those of the first
\* Item of each such url; an Item whose url an existing row carries adds
\* nothing, one that differs from it by a trailing slash only is appended.
C3_RawUrlIdentity ==
    runs > 0 =>
        /\ added = Cardinality(UrlsOf(batch) \ UrlsOf(before))
        /\ Len(store) = Len(before) + added
        /\ UrlsOf(store) = UrlsOf(before) \cup UrlsOf(batch)
        /\ \A i \in DOMAIN batch :
              (/\ batch[i].url \notin UrlsOf(before)
               /\ \A j \in 1..(i - 1) : batch[j].url # batch[i].url)
              => \E k \in DOMAIN store : store[k] = RowOf(batch[i])
        /\ (Len(batch) = 1 /\ batch[1].url \in UrlsOf(before)) => added = 0
        /\ (Len(batch) = 1 /\ batch[1].url = UrlXSlash /\ UrlsOf(before) = {UrlX}) => added = 1

\* C3 witness: the store holds https://a.example/x and a run merged a batch of
\* one Item whose url is https://a.example/x/
C3_Witness ==
    /\ runs = 2 /\ ~again
    /\ UrlsOf(before) = {UrlX}
    /\ Len(batch) = 1 /\ batch[1].url = UrlXSlash
    /\ canonicalize_url_for_dedup(UrlXSlash) = canonicalize_url_for_dedup(UrlX)
    /\ added = 1

\* the pubDate of a row as the claim orders it: empty or unknown is lowest
PubRank(row) == IF row.pub_date = EmptyStr \/ row.pub_date = NaN THEN ZeroDate ELSE row.pub_date

\* C4: the table dedup_merge returns is sorted: of two consecutive rows the
\* first has the greater or equal pubDate, an empty pubDate counting as the
\* lowest value, and when the two are equal, the greater or equal fetchedAt;
\* whether or not the merge appended a row.
C4_StoreSorted ==
    \A i \in 1..(Len(store) - 1) :
        /\ ~DateGreater(PubRank(store[i + 1]), PubRank(store[i]))
        /\ PubRank(store[i]) = PubRank(store[i + 1])
              => store[i].fetched_at >= store[i + 1].fetched_at

\* C4 witness: a later run returned a table with a dated row, an undated row
\* appended by this run and an undated row read back from the csv
C4_Witness ==
    /\ runs = 2 /\ ~again
    /\ Len(store) >= 3
    /\ store[1].pub_date \notin {EmptyStr, NaN}
    /\ \E i, j \in DOMAIN store :
          /\ i < j
          /\ store[i].pub_date = EmptyStr /\ store[j].pub_date = NaN
          /\ store[i].fetched_at > store[j].fetched_at

\* the canonical key of an Item
KeyOf(it) == canonicalize_url_for_dedup(it.url)

\* the candidates of a deduplicating pipeline in extraction order, each with
\* the pubDate the pipeline resolved for it.  parse_gov_home, when it fetches
\* article pages, resolves the first candidate of each key only.
Candidates ==
    IF pipe = "miit" \/ ~config.resolve_pub_date THEN items
    ELSE LET built == GovItems(config.gov_home, now, cands)
             first == {i \in DOMAIN built :
                          \A j \in 1..(i - 1) : KeyOf(built[j]) # KeyOf(built[i])}
         IN  [i \in DOMAIN built |->
                 IF i \in first THEN items[Cardinality({j \in first : j <= i})]
                 ELSE built[i]]

\* the candidates that pass the filters
PassingCandidates ==
    LET cs == Candidates
    IN  IF pipe = "miit" THEN SelectSeq(cs, LAMBDA it : MiitPasses(config, now, it))
        ELSE SelectSeq(cs, LAMBDA it : GovPasses(config, now, it))

\* the tie-break: a beats b
Beats(a, b) ==
    \/ a.pub_date # None /\ b.pub_date = None
    \/ /\ a.pub_date # None /\ b.pub_date # None
       /\ ValidDate(a.pub_date) /\ ValidDate(b.pub_date)
       /\ ToOrdinal(a.pub_date) > ToOrdinal(b.pub_date)

\* the one of ps with this key that the tie-break chooses: the first-seen of
\* those no other beats
Survivor(ps, key) ==
    LET same == {i \in DOMAIN ps : KeyOf(ps[i]) = key}
        best == {i \in same : \A j \in same : ~Beats(ps[j], ps[i])}
    IN  ps[Least(best)]

\* C5: parse_miit_home and parse_gov_home return exactly one Item for each
\* canonical key that occurs among the candidates passing the filters, and it
\* is the one the tie-break chooses (dated beats undated, the later date wins,
\* else the first-seen), whatever the extraction order.
C5_OneSurvivorPerKey ==
    pipe \in {"miit", "gov"} =>
        LET ps == PassingCandidates
        IN  /\ \A i \in DOMAIN ps : \E j \in DOMAIN out : KeyOf(out[j]) = KeyOf(ps[i])
            /\ \A j, k \in DOMAIN out : KeyOf(out[j]) = KeyOf(out[k]) => j = k
            /\ \A j \in DOMAIN out :
                  /\ \E i \in DOMAIN ps : KeyOf(ps[i]) = KeyOf(out[j])
                  /\ out[j] = Survivor(ps, KeyOf(out[j]))

\* the two inputs name the same document: they differ at most in scheme, host
\* letter case, a leading "www.", a fragment, or one trailing slash on a
\* non-root path
SameDocument(c1, c2) ==
    /\ c1.path = c2.path
    /\ c1.query = c2.query
    /\ (c1.path = <<>> => c1.slash = c2.slash)

\* C6: canonicalize_url_for_dedup gives one key to two URLs that differ only in
\* scheme (http/https), host letter case, a leading "www.", a fragment, or a
\* single trailing slash on a non-root path; URLs with different query strings
\* get different keys and the query is kept verbatim at the end of the key; a
\* malformed input (urlsplit raises) is returned unchanged.
C6_CanonicalKey ==
    Len(ckeys) = 2 =>
        LET c1 == cin[1]
            c2 == cin[2]
        IN  /\ (~c1.bad /\ ~c2.bad /\ SameDocument(c1, c2)) => ckeys[1] = ckeys[2]
            /\ (~c1.bad /\ ~c2.bad /\ c1.query # c2.query) => ckeys[1] # ckeys[2]
            /\ (~c1.bad /\ c1.query # <<>>) => EndsWith(ckeys[1], <<"?">> \o c1.query)
            /\ c1.bad => ckeys[1] = Render(c1)
            /\ c2.bad => ckeys[2] = Render(c2)

\* C6 witness: http://WWW.Example.com/a/ and https://example.com/a were both
\* canonicalized (and got the key //example.com/a)
C6_Witness ==
    /\ Len(ckeys) = 2
    /\ Render(cin[1]) = <<"h","t","t","p",":","/","/">> \o WwwDotM \o ExampleComM \o <<"/","a","/">>
    /\ Render(cin[2]) = <<"h","t","t","p","s",":","/","/">> \o ExampleCom \o <<"/","a">>
    /\ ckeys[1] = <<"/","/">> \o ExampleCom \o <<"/","a">>

\* the two candidates of the end-to-end example
ExampleA == MiitCand(TitlePolicy, HrefA, D0120, TitlePolicy \o <<" ">> \o D0120)
ExampleB == MiitCand(TitlePolicy, HrefAWww, D0121, TitlePolicy \o <<" ">> \o D0121)
ExampleRan == pipe = "miit" /\ (cands = <<ExampleA, ExampleB>> \/ cands = <<ExampleB, ExampleA>>)

\* C7 as stated: with base https://example.com and a matching keyword, the
\* candidates '/zfxxgk/a.html' (2026-01-20) and
\* '//www.example.com/zfxxgk/a.html' (2026-01-21) give exactly one Item, with
\* url https://example.com/zfxxgk/a.html and pubDate 2026-01-21.
C7_ExampleAsStated ==
    ExampleRan =>
        /\ Len(out) = 1
        /\ out[1].url = BaseExample \o HrefA
        /\ out[1].pub_date = <<2026, 1, 21>>

\* C7: with base https://example.com and a matching keyword, the candidates
\* '/zfxxgk/a.html' (2026-01-20) and '//www.example.com/zfxxgk/a.html'
\* (2026-01-21), both inside the window, give exactly one Item: the later
\* dated candidate's own, with url https://www.example.com/zfxxgk/a.html and
\* pubDate 2026-01-21, in either extraction order.
C7_ExampleSurvivor ==
    ExampleRan =>
        /\ Len(out) = 1
        /\ out[1].url = HttpsPrefix \o WwwDot \o ExampleCom \o HrefA
        /\ out[1].pub_date = <<2026, 1, 21>>

\* C7 witness: parse_miit_home ran on the two candidates, the earlier dated
\* one first, and returned one Item
C7_Witness ==
    /\ pipe = "miit" /\ cands = <<ExampleA, ExampleB>>
    /\ Len(items) = 2 /\ Len(filtered) = 2 /\ Len(out) = 1

\* pub_date lies in [now - hard_cap_days, now], as calendar dates
InWindow(pub_date) ==
    /\ ValidDate(pub_date)
    /\ DateOf(now) - config.hard_cap_days <= ToOrdinal(pub_date)
    /\ ToOrdinal(pub_date) <= DateOf(now)

Accepted(it) == \E i \in DOMAIN filtered : filtered[i] = it

\* the entries of the search-result pages
QQEntriesOf(pages) == UNION {{pages[p].news[i] : i \in DOMAIN pages[p].news} : p \in DOMAIN pages}

\* C8: on the home pages an Item (whose title hits a keyword) with a known
\* pubDate is accepted iff the pubDate lies in [now - hard_cap_days, now] as
\* calendar dates, whatever window_days is, and an Item without a date is
\* accepted; the search source returns no Item for an entry without a
\* resolvable time.
C8_WindowGate ==
    /\ pipe \in {"miit", "gov"} =>
          \A i \in DOMAIN items :
              keyword_hit(items[i].title, config.keywords) =>
                  IF items[i].pub_date = None THEN Accepted(items[i])
                  ELSE Accepted(items[i]) <=> InWindow(items[i].pub_date)
    /\ pipe = "qqnews" =>
          \A i \in DOMAIN items :
              /\ items[i].pub_date # None
              /\ \E n \in QQEntriesOf(cands) :
                    /\ Strip(n.title) = items[i].title /\ Strip(n.url) = items[i].url
                    /\ parse_qqnews_time_to_dt(n.time, now) # None
                    /\ items[i].pub_date =
                          FromOrdinal(DateOf(parse_qqnews_time_to_dt(n.time, now)[1]))

\* C9: every Item a pipeline returns with a pubDate has a valid calendar date,
\* not later than now and not older than now - hard_cap_days.
C9_ReturnedDatesInWindow ==
    \A i \in DOMAIN out : out[i].pub_date # None => InWindow(out[i].pub_date)

\* the first of DATE_PATTERNS that matches the text, as its three groups
FirstMatch(text) ==
    LET m1 == Search(text.chars, DATE_PATTERNS[1])
        m2 == Search(text.chars, DATE_PATTERNS[2])
        m3 == Search(text.chars, DATE_PATTERNS[3])
    IN  IF m1 # None THEN m1 ELSE IF m2 # None THEN m2 ELSE m3

OutOfRange(g) == g # None /\ ~(g[2] \in 1..12 /\ g[3] \in 1..31)

\* C10: when a fixed date pattern matches the text but a captured month or day
\* is out of range, extract_date returns None.
C10_OutOfRangeIsUnknown ==
    (dres # <<>> /\ OutOfRange(FirstMatch(dtext))) => dres[1] = None

\* the Items parse_gov_home hands to the back-fill loop, one per canonical key
GovUniqItems == Values(TempUniq(<<>>, GovItems(config.gov_home, now, cands), 1))

\* a failed article-page fetch costs only that Item's back-fill: the Item
\* stays, with the date it had, and every Item whose page was fetched and
\* shows a date has that date
ArticleFailureIsLocal ==
    (pipe = "gov" /\ config.resolve_pub_date) =>
        /\ Len(items) = Len(GovUniqItems)
        /\ \A k \in DOMAIN fetches :
              items[k] = IF config.web[k].ok /\ config.web[k].date # None
                         THEN [GovUniqItems[k] EXCEPT !.pub_date = config.web[k].date]
                         ELSE GovUniqItems[k]

\* C11: a transport error on a network call never terminates the run: when
\* the fetch of a source's home page or search page fails, that source
\* contributes nothing and the run goes on to the remaining sources, the merge,
\* the store and the added count; when an article-page fetch fails, only that
\* Item's date back-fill is skipped.
C11_TransportErrorsSurvived ==
    /\ pc # "raised"
    /\ failed # "none" =>
          pc \in {"miit", "gov", "qqnews", "merge", "to_csv", "added_count", "done"}
    /\ pc = "done" => (out_csv = <<to_csv(store)>> /\ added_count = <<added>>)
    /\ ArticleFailureIsLocal

\* C12: in a run of parse_gov_home with date back-filling enabled, no url's
\* article page is fetched more than once and the number of article-page
\* fetches is at most resolve_pub_date_cap, however many anchors the home page
\* has.
C12_FetchesBoundedNeverRepeated ==
    (pipe = "gov" /\ config.resolve_pub_date) =>
        /\ \A i, j \in DOMAIN fetches : i # j => fetches[i] # fetches[j]
        /\ Len(fetches) <= config.resolve_pub_date_cap

\* the home page has more links, to different documents, than the cap allows
\* to fetch: the cap's worth of pages are fetched, every Item is kept
C12_Witness ==
    /\ pipe = "gov" /\ config.resolve_pub_date
    /\ Len(cands) > config.resolve_pub_date_cap
    /\ Len(items) > config.resolve_pub_date_cap
    /\ Len(fetches) = config.resolve_pub_date_cap

====
